---------------------------- MODULE Spec2Model ----------------------------
(***************************************************************************)
(* A model of streaming_demo.py: the scripted gNMI streaming telemetry     *)
(* demo (TelemetryDemo.run_full_demo and the demo steps it calls).         *)
(*                                                                         *)
(* The program is one sequential process; pc is its position.  The device  *)
(* (it answers the calls and sends the stream's responses), the person at  *)
(* the keyboard (Enter, end of input, Ctrl+C) and the clock are the        *)
(* environment.                                                            *)
(***************************************************************************)
EXTENDS Integers, Sequences, FiniteSets, TLC

VARIABLES
    pc,            \* the position of run_full_demo and of the step it is in
    client,        \* self.client: "None" or "gNMIclient"
    connects,      \* how many times client.connect() was called
    closed,        \* whether client.close() was called
    capsResult,    \* what client.capabilities() did ("none" before the call)
    runExc,        \* the exception that left a demo step (or connect)
    requests,      \* the subscription requests passed to client.subscribe2
    stream,        \* the subscribe2 generator: "none", "open", "ended", "failed", "dropped"
    inbox,         \* responses the device has sent that the loop has not taken
    sent,          \* how many responses the device has sent on this stream
    response,      \* the loop variable of the for statement
    update_count,  \* update_count of the streaming demo
    start_time,    \* start_time of the streaming demo
    now,           \* time.time()
    out,           \* what the streaming demo has printed below its dashed line
    exc,           \* the exception a streaming demo's handler caught
    ctrl_c         \* how many times the user has pressed Ctrl+C

vars == <<pc, client, connects, closed, capsResult, runExc, requests, stream,
          inbox, sent, response, update_count, start_time, now, out, exc, ctrl_c>>

-----------------------------------------------------------------------------
(* Bounds of the model and the program's constants *)

MaxResponses == 2      \* responses the device sends on one stream
TickSeconds == 16      \* seconds the clock advances in one step
MaxClock == 70         \* the clock stops here
Cutoff == 30           \* "if time.time() - start_time > 30"

-----------------------------------------------------------------------------
(* Strings are sequences of one-character strings, so that the program's   *)
(* substring tests, splits and strips are computed as Python computes them *)

Chars(s) ==
    CASE s = "interfaces" -> <<"i", "n", "t", "e", "r", "f", "a", "c", "e", "s">>
      [] s = "interface" -> <<"i", "n", "t", "e", "r", "f", "a", "c", "e">>
      [] s = "state" -> <<"s", "t", "a", "t", "e">>
      [] s = "counters" -> <<"c", "o", "u", "n", "t", "e", "r", "s">>
      [] s = "in-octets" -> <<"i", "n", "-", "o", "c", "t", "e", "t", "s">>
      [] s = "out-octets" -> <<"o", "u", "t", "-", "o", "c", "t", "e", "t", "s">>
      [] s = "oper-status" -> <<"o", "p", "e", "r", "-", "s", "t", "a", "t", "u", "s">>
      [] s = "admin-status" -> <<"a", "d", "m", "i", "n", "-", "s", "t", "a", "t", "u", "s">>
      [] s = "in-unicast-pkts" -> <<"i", "n", "-", "u", "n", "i", "c", "a", "s", "t", "-", "p", "k", "t", "s">>
      [] s = "subinterfaces" -> <<"s", "u", "b", "i", "n", "t", "e", "r", "f", "a", "c", "e", "s">>
      [] s = "subinterface" -> <<"s", "u", "b", "i", "n", "t", "e", "r", "f", "a", "c", "e">>
      [] s = "network-instances" -> <<"n", "e", "t", "w", "o", "r", "k", "-", "i", "n", "s", "t", "a", "n", "c", "e", "s">>
      [] s = "network-instance" -> <<"n", "e", "t", "w", "o", "r", "k", "-", "i", "n", "s", "t", "a", "n", "c", "e">>
      [] s = "name" -> <<"n", "a", "m", "e">>
      [] s = "index" -> <<"i", "n", "d", "e", "x">>
      [] s = "ifname" -> <<"i", "f", "n", "a", "m", "e">>
      [] s = "Ethernet1" -> <<"E", "t", "h", "e", "r", "n", "e", "t", "1">>
      [] s = "Ethernet3" -> <<"E", "t", "h", "e", "r", "n", "e", "t", "3">>
      [] s = "Port,1" -> <<"P", "o", "r", "t", ",", "1">>
      [] s = "default" -> <<"d", "e", "f", "a", "u", "l", "t">>
      [] s = "0" -> <<"0">>
      [] s = "*" -> <<"*">>
      [] s = "Unknown" -> <<"U", "n", "k", "n", "o", "w", "n">>
      [] s = "Interface" -> <<"I", "n", "t", "e", "r", "f", "a", "c", "e">>
      [] s = "" -> <<>>

\* Python's s.find(sub) + 1: the first place sub occurs in s, 0 when it does not
Find(s, sub) ==
    LET at == {i \in 1..(Len(s) - Len(sub) + 1) : SubSeq(s, i, i + Len(sub) - 1) = sub}
    IN  IF at = {} THEN 0 ELSE CHOOSE i \in at : \A j \in at : i <= j

\* Python's "sub in s"
Contains(s, sub) == Find(s, sub) # 0

\* Python's s.split(sep)
RECURSIVE Split(_, _)
Split(s, sep) ==
    LET i == Find(s, sep)
    IN  IF i = 0 THEN <<s>>
        ELSE <<SubSeq(s, 1, i - 1)>> \o Split(SubSeq(s, i + Len(sep), Len(s)), sep)

\* Python's s.strip(chars)
RECURSIVE LStrip(_, _)
LStrip(s, chars) ==
    IF s # <<>> /\ Head(s) \in chars THEN LStrip(Tail(s), chars) ELSE s

RECURSIVE RStrip(_, _)
RStrip(s, chars) ==
    IF s # <<>> /\ s[Len(s)] \in chars THEN RStrip(SubSeq(s, 1, Len(s) - 1), chars) ELSE s

Strip(s, chars) == RStrip(LStrip(s, chars), chars)

-----------------------------------------------------------------------------
(* Paths.  An update's path is a sequence of segments, each a name and a   *)
(* sequence of keys; str(path) is its gNMI text, name[k=v][k=v]/name/...   *)

Key(k, v, q) == [k |-> k, v |-> v, q |-> q]
Seg(n, keys) == [name |-> n, keys |-> keys]

QuoteChars(q) == IF q = "double" THEN <<"\"">> ELSE IF q = "single" THEN <<"'">> ELSE <<>>

RECURSIVE KeysStr(_)
KeysStr(keys) ==
    IF keys = <<>> THEN <<>>
    ELSE LET key == Head(keys)
         IN  <<"[">> \o Chars(key.k) \o <<"=">> \o QuoteChars(key.q) \o Chars(key.v)
                 \o QuoteChars(key.q) \o <<"]">> \o KeysStr(Tail(keys))

RECURSIVE PathStr(_)
PathStr(path) ==
    IF path = <<>> THEN <<>>
    ELSE Chars(Head(path).name) \o KeysStr(Head(path).keys)
            \o (IF Tail(path) = <<>> THEN <<>> ELSE <<"/">> \o PathStr(Tail(path)))

NameEq == Chars("name") \o <<"=">>
BracketNameEq == <<"[">> \o NameEq

\* "if 'name=' in path_str or '[name=' in path_str"
HasNameKey(path_str) == Contains(path_str, NameEq) \/ Contains(path_str, BracketNameEq)

\* path_str.split('name=')[1].split(']')[0].split(',')[0].strip("'\""), inside
\* "if 'name=' in path_str: ... else: 'Unknown'" and "try: ... except: 'Interface'"
ExtractIface(path_str) ==
    IF Contains(path_str, NameEq)
    THEN LET parts == Split(path_str, NameEq)
         IN  IF Len(parts) < 2 THEN Chars("Interface")
             ELSE Strip(Split(Split(parts[2], <<"]">>)[1], <<",">>)[1], {"'", "\""})
    ELSE Chars("Unknown")


-----------------------------------------------------------------------------
(* Values of updates: t is the Python type, n the number, s the text *)

Val(t, n, s) == [t |-> t, n |-> n, s |-> s]
NoVal == Val("none", 0, "")

\* isinstance(value, (int, float)); a bool is an int
IsNumber(value) == value.t \in {"int", "float", "bool"}

\* f"{value:,}": what formatting the value with ',' raises ("none": nothing)
FormatComma(value) ==
    IF IsNumber(value) THEN "none"
    ELSE IF value.t = "str" THEN "ValueError"
    ELSE "TypeError"

\* str(value).upper()
Upper(s) ==
    CASE s = "up" -> "UP"
      [] s = "down" -> "DOWN"
      [] OTHER -> s

\* A printed line: t is what is printed, n a number in it, iface and value
\* the interface name and value in it, color the colour of the value
Line(t, n, iface, value, color) ==
    [t |-> t, n |-> n, iface |-> iface, value |-> value, color |-> color]

-----------------------------------------------------------------------------
(* The body of the "for update in notif.get('update', [])" loops.  A result *)
(* is the lines printed and the exception raised ("none": none)            *)

InOctets == Chars("in-octets")
OutOctets == Chars("out-octets")
OperStatus == Chars("oper-status")
AdminStatus == Chars("admin-status")

\* demo_subscribe_sample, one update
SampleUpdate(update) ==
    LET path_str == PathStr(update.path)
        value == update.val
        iface == ExtractIface(path_str)
    IN  IF ~HasNameKey(path_str) THEN [lines |-> <<>>, exc |-> "none"]
        ELSE IF Contains(path_str, InOctets)
             THEN IF FormatComma(value) # "none"
                  THEN [lines |-> <<>>, exc |-> FormatComma(value)]
                  ELSE [lines |-> <<Line("rx", 0, iface, value, "")>>, exc |-> "none"]
        ELSE IF Contains(path_str, OutOctets)
             THEN IF FormatComma(value) # "none"
                  THEN [lines |-> <<>>, exc |-> FormatComma(value)]
                  ELSE [lines |-> <<Line("tx", 0, iface, value, "")>>, exc |-> "none"]
        ELSE [lines |-> <<>>, exc |-> "none"]

\* demo_subscribe_on_change, one update
OnChangeUpdate(update) ==
    LET path_str == PathStr(update.path)
        value == update.val
        iface == ExtractIface(path_str)
        up == value.t = "str" /\ Upper(value.s) = "UP"
    IN  IF ~HasNameKey(path_str) THEN [lines |-> <<>>, exc |-> "none"]
        ELSE IF Contains(path_str, OperStatus)
             THEN [lines |-> <<Line("oper", 0, iface, value, IF up THEN "GREEN" ELSE "RED")>>,
                   exc |-> "none"]
        ELSE IF Contains(path_str, AdminStatus)
             THEN [lines |-> <<Line("admin", 0, iface, value, IF up THEN "GREEN" ELSE "YELLOW")>>,
                   exc |-> "none"]
        ELSE [lines |-> <<>>, exc |-> "none"]

\* The updates of one response in turn; the first exception ends the loop
RECURSIVE SampleUpdates(_)
SampleUpdates(updates) ==
    IF updates = <<>> THEN [lines |-> <<>>, exc |-> "none"]
    ELSE LET first == SampleUpdate(Head(updates))
             rest == SampleUpdates(Tail(updates))
         IN  IF first.exc # "none" THEN first
             ELSE [lines |-> first.lines \o rest.lines, exc |-> rest.exc]

RECURSIVE OnChangeUpdates(_)
OnChangeUpdates(updates) ==
    IF updates = <<>> THEN [lines |-> <<>>, exc |-> "none"]
    ELSE LET first == OnChangeUpdate(Head(updates))
             rest == OnChangeUpdates(Tail(updates))
         IN  IF first.exc # "none" THEN first
             ELSE [lines |-> first.lines \o rest.lines, exc |-> rest.exc]

\* "if 'update' in response: notif = response['update']; notif.get('update', [])"
UpdatesOf(resp) == IF resp.has_update THEN resp.update ELSE <<>>

-----------------------------------------------------------------------------
(* The subscriptions and what the device sends *)

Pattern(leaf) ==
    IF leaf \in {"in-octets", "out-octets"}
    THEN <<Seg("interfaces", <<>>), Seg("interface", <<Key("name", "*", "none")>>),
           Seg("state", <<>>), Seg("counters", <<>>), Seg(leaf, <<>>)>>
    ELSE <<Seg("interfaces", <<>>), Seg("interface", <<Key("name", "*", "none")>>),
           Seg("state", <<>>), Seg(leaf, <<>>)>>

\* paths of demo_subscribe_sample and of demo_subscribe_on_change
SamplePaths == <<Pattern("in-octets"), Pattern("out-octets")>>
OnChangePaths == <<Pattern("oper-status"), Pattern("admin-status")>>

SampleSubscription == [mode |-> "sample", paths |-> SamplePaths]
OnChangeSubscription == [mode |-> "on_change", paths |-> OnChangePaths]

\* A concrete path of a subscribed leaf of interface ifname
LeafPath(ifname, leaf) ==
    [i \in 1..Len(Pattern(leaf)) |->
        IF i = 2 THEN Seg("interface", <<Key("name", ifname, "none")>>) ELSE Pattern(leaf)[i]]

Update(path, val) == [path |-> path, val |-> val]

\* A response of subscribe2: seq is its place in the stream; has_update is
\* 'update' in response (a sync_response has none)
Response(seq, has_update, updates) == [seq |-> seq, has_update |-> has_update, update |-> updates]
NoResponse == Response(0, FALSE, <<>>)

GoodCounter == Update(LeafPath("Ethernet1", "in-octets"), Val("int", 1542, ""))
BadCounter == Update(LeafPath("Ethernet1", "in-octets"), Val("str", 0, "n/a"))

SampleBodies ==
    { <<>>, <<GoodCounter>>, <<BadCounter>>, <<BadCounter, GoodCounter>>,
      <<Update(LeafPath("Ethernet1", "out-octets"), Val("int", 977, ""))>>,
      <<Update(LeafPath("Ethernet1", "out-octets"), NoVal)>> }

OnChangeBodies ==
    { <<>>,
      <<Update(LeafPath("Ethernet3", "oper-status"), Val("str", 0, "DOWN"))>>,
      <<Update(LeafPath("Ethernet3", "oper-status"), Val("str", 0, "UP"))>>,
      <<Update(LeafPath("Ethernet3", "admin-status"), Val("str", 0, "DOWN"))>>,
      <<Update(LeafPath("Ethernet3", "admin-status"), Val("str", 0, "up"))>> }

\* What the device may send next on a stream of the given mode
DeviceResponses(mode, seq) ==
    {Response(seq, FALSE, <<>>)}
        \cup {Response(seq, TRUE, b) : b \in IF mode = "sample" THEN SampleBodies ELSE OnChangeBodies}


-----------------------------------------------------------------------------
(* The run *)

Exc(kind, origin) == [kind |-> kind, origin |-> origin]
NoExc == Exc("none", "none")

\* What the user does at an input() prompt: Enter, end of input, Ctrl+C
Keys == {"enter", "eof", "interrupt"}

\* The streaming demo's own variables
loopVars == <<requests, stream, inbox, sent, response, update_count, start_time, out, exc>>

\* TelemetryDemo.__init__ and the start of run_full_demo
Init ==
    /\ pc = "connect"
    /\ client = "None"
    /\ connects = 0
    /\ closed = FALSE
    /\ capsResult = "none"
    /\ runExc = NoExc
    /\ requests = <<>>
    /\ stream = "none"
    /\ inbox = <<>>
    /\ sent = 0
    /\ response = NoResponse
    /\ update_count = 0
    /\ start_time = 0
    /\ now = 0
    /\ out = <<>>
    /\ exc = "none"
    /\ ctrl_c = 0

\* connect(), and "if not self.connect(): return".  The constructor raises,
\* client.connect() returns, raises, or the user interrupts it
Connect ==
    /\ pc = "connect"
    /\ \/ /\ client' = "gNMIclient"                 \* connected
          /\ connects' = connects + 1
          /\ pc' = "caps"
          /\ UNCHANGED <<runExc, ctrl_c>>
       \/ /\ client' = "gNMIclient"                 \* client.connect() raises
          /\ connects' = connects + 1
          /\ pc' = "done"
          /\ UNCHANGED <<runExc, ctrl_c>>
       \/ /\ pc' = "done"                           \* gNMIclient(...) raises
          /\ UNCHANGED <<client, connects, runExc, ctrl_c>>
       \/ /\ client' = "gNMIclient"                 \* Ctrl+C in client.connect()
          /\ connects' = connects + 1
          /\ pc' = "done"
          /\ runExc' = Exc("KeyboardInterrupt", "connect")
          /\ ctrl_c' = ctrl_c + 1
    /\ UNCHANGED <<closed, capsResult, now>>
    /\ UNCHANGED loopVars

\* An exception leaves the demo step: run_full_demo's "except Exception"
\* reports it, and "finally" follows
Escapes(kind, origin) ==
    /\ pc' = "finally"
    /\ runExc' = Exc(kind, origin)
    /\ ctrl_c' = IF kind = "KeyboardInterrupt" THEN ctrl_c + 1 ELSE ctrl_c

\* An input() that no try of the demo step covers (in an except handler, or
\* in demo_comparison)
HandlerPrompt(at, next) ==
    /\ pc = at
    /\ \E key \in Keys :
        \/ key = "enter" /\ pc' = next /\ UNCHANGED <<runExc, ctrl_c>>
        \/ key = "eof" /\ Escapes("EOFError", "input")
        \/ key = "interrupt" /\ Escapes("KeyboardInterrupt", "input")

\* An input() inside "try: ... except Exception": the handler takes the
\* EOFError and prompts again; Ctrl+C leaves the step
TryPrompt(at, next, handler) ==
    /\ pc = at
    /\ \E key \in Keys :
        \/ key = "enter" /\ pc' = next /\ UNCHANGED <<runExc, ctrl_c>>
        \/ key = "eof" /\ pc' = handler /\ UNCHANGED <<runExc, ctrl_c>>
        \/ key = "interrupt" /\ Escapes("KeyboardInterrupt", "input")

\* demo_capabilities without its "except Exception": what capabilities()
\* raises leaves the step
DemoCapabilities_Propagates ==
    /\ pc = "caps"
    /\ \E r \in {"full", "lacking", "malformed", "raises", "interrupt"} :
        /\ capsResult' = r
        /\ \/ r \in {"full", "lacking"} /\ pc' = "caps_prompt" /\ UNCHANGED <<runExc, ctrl_c>>
           \/ r \in {"malformed", "raises"} /\ Escapes("Exception", "capabilities")
           \/ r = "interrupt" /\ Escapes("KeyboardInterrupt", "capabilities")
    /\ UNCHANGED <<client, connects, closed, now>>
    /\ UNCHANGED <<requests, stream, inbox, sent, response, update_count, start_time, out, exc>>

\* demo_capabilities: client.capabilities() and the reading of its result
\* ("malformed": a result that is no mapping, .get raises)
DemoCapabilities ==
    /\ pc = "caps"
    /\ \E r \in {"full", "lacking", "malformed", "raises", "interrupt"} :
        /\ capsResult' = r
        /\ \/ r \in {"full", "lacking"} /\ pc' = "caps_prompt" /\ UNCHANGED <<runExc, ctrl_c>>
           \/ r \in {"malformed", "raises"} /\ pc' = "caps_prompt_err"
                /\ UNCHANGED <<runExc, ctrl_c>>
           \/ r = "interrupt" /\ Escapes("KeyboardInterrupt", "capabilities")
    /\ UNCHANGED <<client, connects, closed, now>>
    /\ UNCHANGED loopVars

CapsPrompt ==
    /\ TryPrompt("caps_prompt", "get", "caps_prompt_err")
    /\ UNCHANGED <<client, connects, closed, capsResult, now>>
    /\ UNCHANGED loopVars

CapsPromptErr ==
    /\ HandlerPrompt("caps_prompt_err", "get")
    /\ UNCHANGED <<client, connects, closed, capsResult, now>>
    /\ UNCHANGED loopVars

\* demo_get_single: client.get() and the display of its result
DemoGetSingle ==
    /\ pc = "get"
    /\ \E r \in {"ok", "raises", "interrupt"} :
        \/ r = "ok" /\ pc' = "get_prompt" /\ UNCHANGED <<runExc, ctrl_c>>
        \/ r = "raises" /\ pc' = "get_prompt_err" /\ UNCHANGED <<runExc, ctrl_c>>
        \/ r = "interrupt" /\ Escapes("KeyboardInterrupt", "get")
    /\ UNCHANGED <<client, connects, closed, capsResult, now>>
    /\ UNCHANGED loopVars

GetPrompt ==
    /\ TryPrompt("get_prompt", "sample_open", "get_prompt_err")
    /\ UNCHANGED <<client, connects, closed, capsResult, now>>
    /\ UNCHANGED loopVars

GetPromptErr ==
    /\ HandlerPrompt("get_prompt_err", "sample_open")
    /\ UNCHANGED <<client, connects, closed, capsResult, now>>
    /\ UNCHANGED loopVars

-----------------------------------------------------------------------------
(* The streaming demos *)

runVars == <<client, connects, closed, capsResult, runExc>>

\* The lines each response starts with, and the line after the loop
SampleHeader(n) == <<Line("header", n, <<>>, NoVal, "")>>
OnChangeHeader(n) == <<Line("change", 0, <<>>, NoVal, ""), Line("header", n, <<>>, NoVal, "")>>
SampleSummary(n) == <<Line("summary", n, <<>>, NoVal, "")>>
OnChangeSummary(n) ==
    IF n = 0 THEN <<Line("no_changes", 0, <<>>, NoVal, "")>>
    ELSE <<Line("detected", n, <<>>, NoVal, "")>>

\* "subscription = {...}; update_count = 0; start_time = time.time();
\* ... self.client.subscribe2(subscription)"
Subscribe(at, subscription, loop) ==
    /\ pc = at
    /\ requests' = Append(requests, subscription)
    /\ stream' = "open"
    /\ inbox' = <<>>
    /\ sent' = 0
    /\ response' = NoResponse
    /\ update_count' = 0
    /\ start_time' = now
    /\ out' = <<>>
    /\ exc' = "none"
    /\ pc' = loop
    /\ UNCHANGED <<now, ctrl_c>>
    /\ UNCHANGED runVars

\* The stream ends (the device closes it): the for loop is left normally
Exhausted(at, summary, prompt) ==
    /\ pc = at
    /\ stream = "open"
    /\ inbox = <<>>
    /\ stream' = "ended"
    /\ out' = out \o summary
    /\ pc' = prompt
    /\ UNCHANGED <<requests, inbox, sent, response, update_count, start_time, exc, now, ctrl_c>>
    /\ UNCHANGED runVars

\* subscribe2 raises while the loop waits for the next response (the
\* transport fails): "except Exception as e"
Raises(at, handler) ==
    /\ pc = at
    /\ stream = "open"
    /\ stream' = "failed"
    /\ exc' = "TransportError"
    /\ pc' = handler
    /\ UNCHANGED <<requests, inbox, sent, response, update_count, start_time, out, now, ctrl_c>>
    /\ UNCHANGED runVars

\* Ctrl+C while the loop waits or works: "except KeyboardInterrupt"
Interrupted(ats, handler) ==
    /\ pc \in ats
    /\ stream' = "dropped"
    /\ exc' = "KeyboardInterrupt"
    /\ ctrl_c' = ctrl_c + 1
    /\ pc' = handler
    /\ UNCHANGED <<requests, inbox, sent, response, update_count, start_time, out, now>>
    /\ UNCHANGED runVars

\* The streaming demo is left (it returns, or an exception leaves it): its
\* locals and its generator are gone, and its section of the output ends
Leaves ==
    /\ stream' = "none"
    /\ inbox' = <<>>
    /\ sent' = 0
    /\ response' = NoResponse
    /\ update_count' = 0
    /\ start_time' = 0
    /\ out' = <<>>
    /\ exc' = "none"
    /\ UNCHANGED requests

\* The input() after the loop, inside the try: both handlers apply to it
SummaryPrompt(at, next, interrupted, handler) ==
    /\ pc = at
    /\ \E key \in Keys :
        \/ key = "enter" /\ pc' = next /\ Leaves /\ UNCHANGED ctrl_c
        \/ key = "eof" /\ pc' = handler /\ exc' = "EOFError"
              /\ UNCHANGED <<requests, stream, inbox, sent, response, update_count,
                             start_time, out, ctrl_c>>
        \/ key = "interrupt" /\ pc' = interrupted /\ exc' = "KeyboardInterrupt"
              /\ ctrl_c' = ctrl_c + 1
              /\ UNCHANGED <<requests, stream, inbox, sent, response, update_count,
                             start_time, out>>
    /\ UNCHANGED now
    /\ UNCHANGED runVars

\* A loop over a bounded buffer that drops the oldest response on overflow:
\* with more than one response waiting, the oldest is lost
SampleTake_DropsOldest ==
    /\ pc = "sample_next"
    /\ stream = "open"
    /\ inbox # <<>>
    /\ response' = inbox[Len(inbox)]
    /\ inbox' = <<>>
    /\ update_count' = update_count + 1
    /\ out' = out \o SampleHeader(update_count + 1)
    /\ pc' = "sample_body"
    /\ UNCHANGED <<requests, stream, sent, start_time, exc, now, ctrl_c>>
    /\ UNCHANGED runVars

\* "for response in ...: update_count += 1; print(... Update #...)"
SampleTake ==
    /\ pc = "sample_next"
    /\ stream = "open"
    /\ inbox # <<>>
    /\ response' = Head(inbox)
    /\ inbox' = Tail(inbox)
    /\ update_count' = update_count + 1
    /\ out' = out \o SampleHeader(update_count + 1)
    /\ pc' = "sample_body"
    /\ UNCHANGED <<requests, stream, sent, start_time, exc, now, ctrl_c>>
    /\ UNCHANGED runVars

\* The rest of the loop body: the updates of the response, then
\* "if time.time() - start_time > 30: break"
SampleBody ==
    /\ pc = "sample_body"
    /\ LET r == SampleUpdates(UpdatesOf(response))
       IN  IF r.exc # "none"
           THEN /\ out' = out \o r.lines
                /\ exc' = r.exc
                /\ stream' = "dropped"
                /\ pc' = "sample_prompt_err"
           ELSE IF now - start_time > Cutoff
           THEN /\ out' = out \o r.lines \o SampleSummary(update_count)
                /\ stream' = "dropped"
                /\ pc' = "sample_prompt"
                /\ UNCHANGED exc
           ELSE /\ out' = out \o r.lines
                /\ pc' = "sample_next"
                /\ UNCHANGED <<stream, exc>>
    /\ UNCHANGED <<requests, inbox, sent, response, update_count, start_time, now, ctrl_c>>
    /\ UNCHANGED runVars

\* A handler that sends the subscription again when the stream fails
SampleRaises_Resubscribes ==
    /\ pc = "sample_next"
    /\ stream = "open"
    /\ requests' = Append(requests, SampleSubscription)
    /\ inbox' = <<>>
    /\ UNCHANGED <<pc, stream, sent, response, update_count, start_time, out, exc, now, ctrl_c>>
    /\ UNCHANGED runVars

\* A loop without "except KeyboardInterrupt": Ctrl+C leaves the step
SampleInterrupted_Escapes ==
    /\ pc \in {"sample_next", "sample_body"}
    /\ Escapes("KeyboardInterrupt", "subscribe2")
    /\ Leaves
    /\ UNCHANGED <<client, connects, closed, capsResult, now>>

DemoSubscribeSample == Subscribe("sample_open", SampleSubscription, "sample_next")

SampleExhausted == Exhausted("sample_next", SampleSummary(update_count), "sample_prompt")

SampleRaises == Raises("sample_next", "sample_prompt_err")

SampleInterrupted == Interrupted({"sample_next", "sample_body"}, "sample_prompt_int")

SamplePrompt == SummaryPrompt("sample_prompt", "oc_open", "sample_prompt_int", "sample_prompt_err")

SamplePromptInt ==
    /\ HandlerPrompt("sample_prompt_int", "oc_open")
    /\ Leaves
    /\ UNCHANGED <<client, connects, closed, capsResult, now>>

SamplePromptErr ==
    /\ HandlerPrompt("sample_prompt_err", "oc_open")
    /\ Leaves
    /\ UNCHANGED <<client, connects, closed, capsResult, now>>

\* A loop that counts only the responses that carry an update
OnChangeTake_SkipsSync ==
    /\ pc = "oc_next"
    /\ stream = "open"
    /\ inbox # <<>>
    /\ response' = Head(inbox)
    /\ inbox' = Tail(inbox)
    /\ update_count' = IF Head(inbox).has_update THEN update_count + 1 ELSE update_count
    /\ out' = IF Head(inbox).has_update THEN out \o OnChangeHeader(update_count + 1) ELSE out
    /\ pc' = "oc_body"
    /\ UNCHANGED <<requests, stream, sent, start_time, exc, now, ctrl_c>>
    /\ UNCHANGED runVars

\* "for response in ...: update_count += 1; print(CHANGE DETECTED!, Update #...)"
OnChangeTake ==
    /\ pc = "oc_next"
    /\ stream = "open"
    /\ inbox # <<>>
    /\ response' = Head(inbox)
    /\ inbox' = Tail(inbox)
    /\ update_count' = update_count + 1
    /\ out' = out \o OnChangeHeader(update_count + 1)
    /\ pc' = "oc_body"
    /\ UNCHANGED <<requests, stream, sent, start_time, exc, now, ctrl_c>>
    /\ UNCHANGED runVars

OnChangeBody ==
    /\ pc = "oc_body"
    /\ LET r == OnChangeUpdates(UpdatesOf(response))
       IN  IF r.exc # "none"
           THEN /\ out' = out \o r.lines
                /\ exc' = r.exc
                /\ stream' = "dropped"
                /\ pc' = "oc_prompt_err"
           ELSE IF now - start_time > Cutoff
           THEN /\ out' = out \o r.lines \o OnChangeSummary(update_count)
                /\ stream' = "dropped"
                /\ pc' = "oc_prompt"
                /\ UNCHANGED exc
           ELSE /\ out' = out \o r.lines
                /\ pc' = "oc_next"
                /\ UNCHANGED <<stream, exc>>
    /\ UNCHANGED <<requests, inbox, sent, response, update_count, start_time, now, ctrl_c>>
    /\ UNCHANGED runVars

DemoSubscribeOnChange == Subscribe("oc_open", OnChangeSubscription, "oc_next")

OnChangeExhausted == Exhausted("oc_next", OnChangeSummary(update_count), "oc_prompt")

OnChangeRaises == Raises("oc_next", "oc_prompt_err")

OnChangeInterrupted == Interrupted({"oc_next", "oc_body"}, "oc_prompt_int")

OnChangePrompt == SummaryPrompt("oc_prompt", "comparison", "oc_prompt_int", "oc_prompt_err")

OnChangePromptInt ==
    /\ HandlerPrompt("oc_prompt_int", "comparison")
    /\ Leaves
    /\ UNCHANGED <<client, connects, closed, capsResult, now>>

OnChangePromptErr ==
    /\ HandlerPrompt("oc_prompt_err", "comparison")
    /\ Leaves
    /\ UNCHANGED <<client, connects, closed, capsResult, now>>

\* demo_comparison, whose input() is the one thing in it that can fail,
\* and "Demo Complete!"
DemoComparison ==
    /\ HandlerPrompt("comparison", "finally")
    /\ UNCHANGED <<client, connects, closed, capsResult, now>>
    /\ UNCHANGED loopVars

\* "finally: if self.client: ... try: self.client.close() except: pass";
\* a KeyboardInterrupt then goes on to the caller
Finally ==
    /\ pc = "finally"
    /\ closed' = (client # "None")
    /\ pc' = "done"
    /\ UNCHANGED <<client, connects, capsResult, runExc, now, ctrl_c>>
    /\ UNCHANGED loopVars

-----------------------------------------------------------------------------
(* The environment of a stream *)

\* The device sends one more response on the open stream
DeviceSends ==
    /\ stream = "open"
    /\ sent < MaxResponses
    /\ \E r \in DeviceResponses(requests[Len(requests)].mode, sent + 1) :
        inbox' = Append(inbox, r)
    /\ sent' = sent + 1
    /\ UNCHANGED <<pc, requests, stream, response, update_count, start_time, now, out, exc, ctrl_c>>
    /\ UNCHANGED runVars

\* Time passes while a stream is open
Tick ==
    /\ stream = "open"
    /\ now + TickSeconds <= MaxClock
    /\ now' = now + TickSeconds
    /\ UNCHANGED <<pc, ctrl_c>>
    /\ UNCHANGED runVars
    /\ UNCHANGED loopVars

-----------------------------------------------------------------------------

Next ==
    \/ Connect
    \/ DemoCapabilities
    \/ CapsPrompt
    \/ CapsPromptErr
    \/ DemoGetSingle
    \/ GetPrompt
    \/ GetPromptErr
    \/ DemoSubscribeSample
    \/ SampleTake
    \/ SampleBody
    \/ SampleExhausted
    \/ SampleRaises
    \/ SampleInterrupted
    \/ SamplePrompt
    \/ SamplePromptInt
    \/ SamplePromptErr
    \/ DemoSubscribeOnChange
    \/ OnChangeTake
    \/ OnChangeBody
    \/ OnChangeExhausted
    \/ OnChangeRaises
    \/ OnChangeInterrupted
    \/ OnChangePrompt
    \/ OnChangePromptInt
    \/ OnChangePromptErr
    \/ DemoComparison
    \/ Finally
    \/ DeviceSends
    \/ Tick

Spec == Init /\ [][Next]_vars

-----------------------------------------------------------------------------
(* The program with its scheduling: a response that waits is taken by the  *)
(* loop that waits for it, and time passes.  What the device sends,        *)
(* whether the stream ends or fails, and what the user types are left open *)

LiveSpec ==
    Init /\ [][Next]_vars /\ WF_vars(SampleTake) /\ WF_vars(OnChangeTake) /\ WF_vars(Tick)

-----------------------------------------------------------------------------
(* The loop body applied to one response with one update, for update paths *)
(* of many shapes                                                          *)

KeyValues == {"Ethernet1", "Port,1", "in-octets", "oper-status"}
Quotes == {"none", "double", "single"}
LeafNames == {"in-octets", "out-octets", "oper-status", "admin-status", "in-unicast-pkts"}

InterfaceKeys(v, q) ==
    { <<Key("name", v, q)>>,
      <<Key("name", v, q), Key("index", "0", "none")>>,
      <<Key("index", "0", "none"), Key("name", v, q)>>,
      <<Key("ifname", "default", "none"), Key("name", v, q)>> }

PathPrefixes ==
    { <<>>,
      <<Seg("network-instances", <<>>),
        Seg("network-instance", <<Key("name", "default", "none")>>)>> }

PathTails(leaf) ==
    { <<Seg("state", <<>>), Seg("counters", <<>>), Seg(leaf, <<>>)>>,
      <<Seg("state", <<>>), Seg(leaf, <<>>)>>,
      <<Seg("subinterfaces", <<>>), Seg("subinterface", <<Key("name", "0", "none")>>),
        Seg("state", <<>>), Seg("counters", <<>>), Seg(leaf, <<>>)>> }

TestPaths ==
    { pre \o <<Seg("interfaces", <<>>), Seg("interface", keys)>> \o tail :
        pre \in PathPrefixes,
        keys \in UNION {InterfaceKeys(v, q) : v \in KeyValues, q \in Quotes},
        tail \in UNION {PathTails(leaf) : leaf \in LeafNames} }

\* A value of the kind the leaf carries
TestValue(path) ==
    IF path[Len(path)].name \in {"oper-status", "admin-status"}
    THEN Val("str", 0, "UP")
    ELSE Val("int", 1542, "")

\* A streaming demo waiting in its loop, the device having sent one response
PathInit ==
    /\ client = "gNMIclient"
    /\ connects = 1
    /\ closed = FALSE
    /\ capsResult = "full"
    /\ runExc = NoExc
    /\ \E path \in TestPaths :
        inbox = <<Response(1, TRUE, <<Update(path, TestValue(path))>>)>>
    /\ \/ pc = "sample_next" /\ requests = <<SampleSubscription>>
       \/ pc = "oc_next" /\ requests = <<SampleSubscription, OnChangeSubscription>>
    /\ stream = "open"
    /\ sent = 1
    /\ response = NoResponse
    /\ update_count = 0
    /\ start_time = 0
    /\ now = 0
    /\ out = <<>>
    /\ exc = "none"
    /\ ctrl_c = 0

PathNext ==
    \/ SampleTake
    \/ SampleBody
    \/ OnChangeTake
    \/ OnChangeBody

PathSpec == PathInit /\ [][PathNext]_vars

-----------------------------------------------------------------------------
(* The claims *)

CounterLeaves == {"in-octets", "out-octets"}
LeafOf(path) == path[Len(path)].name

\* An update under a counter path whose value is no number
IsMalformedCounter(update) ==
    /\ update.path # <<>>
    /\ LeafOf(update.path) \in CounterLeaves
    /\ ~IsNumber(update.val)

\* C1: a non-numeric value under a counter path (in-octets, out-octets) never
\* ends the stream: once the loop body is through with a response that
\* carries such an update, no formatting error has been raised out of the
\* loop, and the loop goes on or ends as it would have
C1_MalformedUpdateNeverEndsStream ==
    (/\ pc \notin {"sample_body", "oc_body"}
     /\ \E i \in DOMAIN UpdatesOf(response) : IsMalformedCounter(response.update[i]))
        => exc \notin {"ValueError", "TypeError"}

\* C2: whenever run_full_demo has returned or passed an exception on and a
\* gNMIclient object was created, client.close() has been called
C2_ClientClosedOnEveryExit ==
    (pc = "done" /\ client # "None") => closed

\* C3: when capabilities() raises, or returns a result that lacks the keys
\* or is no mapping, the run goes on to the SAMPLE subscription; the one
\* thing that can keep it from there is the user ending the run (Ctrl+C or
\* end of input) at a prompt or in the GET request on the way
C3_CapabilityFailureNeverBlocks ==
    capsResult \in {"raises", "malformed", "lacking"}
        => \/ pc \in {"caps_prompt", "caps_prompt_err", "get", "get_prompt",
                      "get_prompt_err", "sample_open"}
           \/ (requests # <<>> /\ requests[1] = SampleSubscription)
           \/ (pc \in {"finally", "done"} /\ runExc.origin \in {"input", "get"})

C3_Witness ==
    /\ capsResult = "raises"
    /\ pc = "sample_next"
    /\ requests = <<SampleSubscription>>
    /\ stream = "open"

\* C4 as claimed: by the time a streaming demo whose stream failed is left,
\* the client has connected again and the subscription was sent again
C4_ReconnectsAndResubscribes ==
    [][(stream = "failed" /\ pc' # pc)
          => (connects' >= 2
              /\ \E i, j \in DOMAIN requests' : i # j /\ requests'[i] = requests'[j])]_vars

\* C4: a transport failure while streaming is only reported and the stream
\* is abandoned: the demo is at its error handler's prompt, client.connect()
\* is called at most once in a run, and no subscription is sent twice
C4_FailedStreamIsAbandoned ==
    /\ connects <= 1
    /\ \A i, j \in DOMAIN requests : i # j => requests[i] # requests[j]
    /\ stream = "failed"
          => (pc \in {"sample_prompt_err", "oc_prompt_err"} /\ exc = "TransportError")

C4_Witness ==
    /\ stream = "failed"
    /\ pc = "sample_prompt_err"
    /\ update_count >= 1

\* C5 as claimed: the transport read is never blocked by the consumer: a
\* response the device has sent can be taken whatever the display is doing
C5_ReadNeverBlockedByConsumer ==
    (stream = "open" /\ inbox # <<>>) => ENABLED (SampleTake \/ OnChangeTake)

\* C5: reading and displaying are one sequential loop with no buffer of its
\* own and no dropped-event counter: while a response is displayed no other
\* is read, the k-th response taken is the k-th the device sent, and every
\* response sent and not yet taken still waits, in order
C5_OneSequentialLoop ==
    /\ pc \in {"sample_body", "oc_body"}
          => (response.seq = update_count /\ ~ENABLED (SampleTake \/ OnChangeTake))
    /\ Len(inbox) = sent - update_count
    /\ \A i \in DOMAIN inbox : inbox[i].seq = update_count + i

C5_Witness ==
    /\ pc = "sample_body"
    /\ response.seq = 1
    /\ inbox # <<>>

\* C6 as claimed: once the user has pressed Ctrl+C, no further subscription
\* is opened and no further response is consumed
C6_NothingAfterCtrlC ==
    [][ctrl_c > 0 => (requests' = requests /\ update_count' <= update_count)]_vars

\* C6: a Ctrl+C in the capabilities or GET step, or at a prompt that no
\* streaming demo's try covers, ends the run: run_full_demo goes to its
\* finally and the transport is released.  Inside a streaming demo's try
\* (in the loop, at the prompt after it) it stops that stream only: the
\* demo goes to the prompt of its handler and the run goes on from there
C6_CtrlCEndsStepOrRun ==
    /\ [][(ctrl_c' > ctrl_c /\ pc # "connect")
             => IF pc \in {"sample_next", "sample_body", "sample_prompt"}
                THEN pc' = "sample_prompt_int" /\ stream' # "open" /\ requests' = requests
                ELSE IF pc \in {"oc_next", "oc_body", "oc_prompt"}
                THEN pc' = "oc_prompt_int" /\ stream' # "open" /\ requests' = requests
                ELSE pc' = "finally" /\ runExc'.kind = "KeyboardInterrupt"
                        /\ stream' # "open"]_vars
    /\ []((runExc.kind = "KeyboardInterrupt" /\ runExc.origin # "connect")
             => (pc \in {"finally", "done"} /\ (pc = "done" => closed)))
    /\ []((pc = "done" /\ capsResult # "none") => closed)

C6_Witness ==
    /\ ctrl_c > 0
    /\ runExc = NoExc
    /\ pc = "oc_body"
    /\ Len(requests) = 2

\* C7: once more than 30 seconds have passed since the subscription started,
\* the loop does not go on waiting for the stream: it leaves the wait (to
\* end, or to take a response and break), whatever the stream delivers or
\* does not
C7_LoopLeftAfterCutoff ==
    (pc \in {"sample_next", "oc_next"} /\ now - start_time > Cutoff)
        ~> (pc \notin {"sample_next", "oc_next"})

\* The lines of the display that show an update
EventLines == SelectSeq(out, LAMBDA l : l.t \in {"rx", "tx", "oper", "admin"})
Shown(t) == \E i \in DOMAIN out : out[i].t = t

\* The loop body is through with a response of one update
Processed == pc \in {"sample_next", "oc_next"} /\ response.seq = 1 /\ Len(response.update) = 1

\* C8: an update is classified by the name of the last segment of its path:
\* in the SAMPLE demo it is shown as RX iff that is in-octets and as TX iff
\* it is out-octets, in the ON_CHANGE demo as operational status iff it is
\* oper-status and as admin status iff it is admin-status
C8_ClassifiedByLastSegment ==
    Processed =>
        LET leaf == LeafOf(response.update[1].path)
        IN  IF pc = "sample_next"
            THEN (Shown("rx") <=> leaf = "in-octets") /\ (Shown("tx") <=> leaf = "out-octets")
            ELSE (Shown("oper") <=> leaf = "oper-status")
                    /\ (Shown("admin") <=> leaf = "admin-status")

\* match(pattern, concrete path) of the specification: the same length, the
\* same segment names, and every key of the pattern present in the path
\* (with the pattern's value, unless that is the wildcard)
Matches(pattern, path) ==
    /\ Len(pattern) = Len(path)
    /\ \A i \in DOMAIN pattern :
        /\ pattern[i].name = path[i].name
        /\ \A a \in DOMAIN pattern[i].keys :
            \E b \in DOMAIN path[i].keys :
                /\ path[i].keys[b].k = pattern[i].keys[a].k
                /\ pattern[i].keys[a].v \in {"*", path[i].keys[b].v}

\* The value of key k of a segment
KeyValue(seg, k) ==
    LET b == CHOOSE b \in DOMAIN seg.keys : seg.keys[b].k = k
    IN  seg.keys[b].v

\* C9: an update whose path matches a subscribed pattern is shown with the
\* value of the name key of its interface segment as the interface, and an
\* update whose path matches no subscribed pattern is not shown
C9_InterfaceIsNameKeyOfMatchedPath ==
    Processed =>
        LET path == response.update[1].path
            paths == requests[Len(requests)].paths
        IN  IF \E i \in DOMAIN paths : Matches(paths[i], path)
            THEN Len(EventLines) = 1
                    /\ EventLines[1].iface = Chars(KeyValue(path[2], "name"))
            ELSE EventLines = <<>>

\* C10: update_count is the number of responses taken from the stream, each
\* announced by its header (and, in the ON_CHANGE demo, as a change) whether
\* or not it carries an update; "No changes detected" is printed only when
\* the stream has ended without a single response
C10_EveryResponseCounted ==
    /\ update_count = sent - Len(inbox)
    /\ Len(SelectSeq(out, LAMBDA l : l.t = "header")) = update_count
    /\ pc \in {"oc_next", "oc_body", "oc_prompt", "oc_prompt_int", "oc_prompt_err"}
          => Len(SelectSeq(out, LAMBDA l : l.t = "change")) = update_count
    /\ Shown("no_changes") => (stream = "ended" /\ sent = 0)

C10_Witness ==
    /\ pc = "oc_body"
    /\ ~response.has_update
    /\ update_count = 2
    /\ Shown("change")

=============================================================================
